---- MODULE Spec2Model ----
(***************************************************************************)
(* A model of BidirMap<Kv1, Kv2> (src/src/lib.rs): a bidirectional map     *)
(* kept in one Vec of (Kv1, Kv2) pairs.  Every method of the map is an     *)
(* operator over the sequence `cont`, translated from its body; every call *)
(* a client can make is an action that applies the operator and records    *)
(* the call, the map before it and what it returned.                       *)
(***************************************************************************)
EXTENDS Integers, Sequences, FiniteSets, TLC

\* Bounds of the model: how many different values each side can take, and
\* how many insert calls a counted run makes.
MaxKv1 == 3
MaxKv2 == 3
MaxInserts == 4
\* How many pairs one bulk call supplies, and how long bulk loading makes the Vec.
MaxBulk == 2
MaxLen == 3

Kv1 == 1..MaxKv1
Kv2 == 1..MaxKv2

\* Option<T>: None is the empty tuple, Some(x) the one-element tuple.
None == <<>>
Some(x) == <<x>>

\* The two messages of the indexing impls.
MsgFirst == "no entry found for first key/value"
MsgSecond == "no entry found for second key/value"

VARIABLES
    cont,       \* BidirMap::cont, the Vec of pairs
    op,         \* the last call: [name, k1, k2]
    ret,        \* what the last call returned
    panic,      \* "" when the last call returned, else the panic message
    pre,        \* cont as it was when the last call was made
    fresh,      \* history: every call so far was an insert of a pair whose
                \* first and second no earlier insert had
    inserted,   \* history: the pairs inserted so far, kept while fresh
    counting,   \* whether this run counts its calls
    inserts,    \* counted run: number of insert calls
    displaced,  \* counted run: insert calls that returned Some
    removed     \* counted run: remove_by_* calls that returned Some

vars == <<cont, op, ret, panic, pre, fresh, inserted, counting, inserts, displaced, removed>>

----------------------------------------------------------------------------
(* The methods, as functions of the Vec.                                   *)

\* Vec::len / Vec::is_empty through BidirMap::len / is_empty
len(c) == Len(c)
is_empty(c) == Len(c) = 0

\* position_first as rposition: the highest matching index
position_first_last(c, key) ==
    IF \E i \in 1..Len(c) : key = c[i][1]
    THEN CHOOSE i \in 1..Len(c) : key = c[i][1] /\ \A j \in (i + 1)..Len(c) : key # c[j][1]
    ELSE 0

\* position_first with "not found" taken for the last index
position_first_or_last(c, key) ==
    IF \E i \in 1..Len(c) : key = c[i][1]
    THEN CHOOSE i \in 1..Len(c) : key = c[i][1] /\ \A j \in 1..(i - 1) : key # c[j][1]
    ELSE Len(c)

\* iter().position(|kvs| *key == kvs.0): the lowest matching index, 0 for None
position_first(c, key) ==
    IF \E i \in 1..Len(c) : key = c[i][1]
    THEN CHOOSE i \in 1..Len(c) : key = c[i][1] /\ \A j \in 1..(i - 1) : key # c[j][1]
    ELSE 0

\* position_second as rposition: the highest matching index
position_second_last(c, key) ==
    IF \E i \in 1..Len(c) : key = c[i][2]
    THEN CHOOSE i \in 1..Len(c) : key = c[i][2] /\ \A j \in (i + 1)..Len(c) : key # c[j][2]
    ELSE 0

\* iter().position(|kvs| *key == kvs.1)
position_second(c, key) ==
    IF \E i \in 1..Len(c) : key = c[i][2]
    THEN CHOOSE i \in 1..Len(c) : key = c[i][2] /\ \A j \in 1..(i - 1) : key # c[j][2]
    ELSE 0

\* swap_remove that pops the last element whatever idx is
swap_remove_pop(c, idx) == SubSeq(c, 1, Len(c) - 1)

\* swap_remove as Vec::remove: the elements after idx move down by one
swap_remove_shift(c, idx) == SubSeq(c, 1, idx - 1) \o SubSeq(c, idx + 1, Len(c))

\* Vec::swap_remove(idx): the last element takes the place of element idx
swap_remove(c, idx) ==
    IF idx = Len(c)
    THEN SubSeq(c, 1, Len(c) - 1)
    ELSE SubSeq(c, 1, idx - 1) \o <<c[Len(c)]>> \o SubSeq(c, idx + 1, Len(c) - 1)

\* get_by_first that compares the key with kvs.1
get_by_first_wrong_side(c, key) ==
    LET idx == position_second(c, key)
    IN  IF idx = 0 THEN None ELSE Some(c[idx][2])

\* iter().find(|kvs| *key == kvs.0).map(|kvs| &kvs.1)
get_by_first(c, key) ==
    LET idx == position_first(c, key)
    IN  IF idx = 0 THEN None ELSE Some(c[idx][2])

\* get_by_second that maps the entry found to kvs.1, the side it matched
get_by_second_same_side(c, key) ==
    LET idx == position_second(c, key)
    IN  IF idx = 0 THEN None ELSE Some(c[idx][2])

\* iter().find(|kvs| *key == kvs.1).map(|kvs| &kvs.0)
get_by_second(c, key) ==
    LET idx == position_second(c, key)
    IN  IF idx = 0 THEN None ELSE Some(c[idx][1])

\* iter().any(|kvs| *key == kvs.0)
contains_first_key(c, key) == \E i \in 1..Len(c) : key = c[i][1]

\* iter().any(|kvs| *key == kvs.1)
contains_second_key(c, key) == \E i \in 1..Len(c) : key = c[i][2]

\* get_mut_by_first that hands out the side it matched, kv1
get_mut_by_first_key_side(c, key) ==
    LET idx == position_first(c, key)
    IN  IF idx = 0 THEN None ELSE Some([idx |-> idx, side |-> 1])

\* iter_mut().find(|kvs| *key == kvs.0).map(|&mut (_, ref mut kv2)| kv2):
\* the reference is the slot it points to, [idx, side]
get_mut_by_first(c, key) ==
    LET idx == position_first(c, key)
    IN  IF idx = 0 THEN None ELSE Some([idx |-> idx, side |-> 2])

\* iter_mut().find(|kvs| *key == kvs.1).map(|&mut (ref mut kv1, _)| kv1)
get_mut_by_second(c, key) ==
    LET idx == position_second(c, key)
    IN  IF idx = 0 THEN None ELSE Some([idx |-> idx, side |-> 1])

\* *x = v for x the reference r into the Vec
store(c, r, v) == [c EXCEPT ![r.idx][r.side] = v]

\* remove_by_first that returns the entry found and pops the last one
remove_by_first_pops(c, key) ==
    LET idx == position_first(c, key)
    IN  IF idx = 0
        THEN [cont |-> c, ret |-> None]
        ELSE [cont |-> SubSeq(c, 1, Len(c) - 1), ret |-> Some(c[idx])]

\* iter().position(..kvs.0).map(|idx| self.cont.swap_remove(idx))
remove_by_first(c, key) ==
    LET idx == position_first(c, key)
    IN  IF idx = 0
        THEN [cont |-> c, ret |-> None]
        ELSE [cont |-> swap_remove(c, idx), ret |-> Some(c[idx])]

\* remove_by_second that returns the entry found and leaves it in the Vec
remove_by_second_keeps(c, key) ==
    LET idx == position_second(c, key)
    IN  IF idx = 0
        THEN [cont |-> c, ret |-> None]
        ELSE [cont |-> c, ret |-> Some(c[idx])]

\* iter().position(..kvs.1).map(|idx| self.cont.swap_remove(idx))
remove_by_second(c, key) ==
    LET idx == position_second(c, key)
    IN  IF idx = 0
        THEN [cont |-> c, ret |-> None]
        ELSE [cont |-> swap_remove(c, idx), ret |-> Some(c[idx])]

\* insert without the else-if branch: a collision on the second is not looked for
insert_first_only(c, kv1, kv2) ==
    LET r == IF contains_first_key(c, kv1)
             THEN remove_by_first(c, kv1)
             ELSE [cont |-> c, ret |-> None]
    IN  [cont |-> Append(r.cont, <<kv1, kv2>>), ret |-> r.ret]

\* insert that puts the new pair at the front of the Vec
insert_front(c, kv1, kv2) ==
    LET r == IF contains_first_key(c, kv1)
             THEN remove_by_first(c, kv1)
             ELSE IF contains_second_key(c, kv2)
                  THEN remove_by_second(c, kv2)
                  ELSE [cont |-> c, ret |-> None]
    IN  [cont |-> <<<<kv1, kv2>>>> \o r.cont, ret |-> r.ret]

\* insert that resolves both collisions: displaces by first and by second
insert_both(c, kv1, kv2) ==
    LET r == IF contains_first_key(c, kv1)
             THEN remove_by_first(c, kv1)
             ELSE [cont |-> c, ret |-> None]
        q == IF contains_second_key(r.cont, kv2)
             THEN remove_by_second(r.cont, kv2)
             ELSE [cont |-> r.cont, ret |-> None]
    IN  [cont |-> Append(q.cont, <<kv1, kv2>>),
         ret |-> IF r.ret # None THEN r.ret ELSE q.ret]

\* insert with the two branches in the other order: the second is looked at first
insert_second_first(c, kv1, kv2) ==
    LET r == IF contains_second_key(c, kv2)
             THEN remove_by_second(c, kv2)
             ELSE IF contains_first_key(c, kv1)
                  THEN remove_by_first(c, kv1)
                  ELSE [cont |-> c, ret |-> None]
    IN  [cont |-> Append(r.cont, <<kv1, kv2>>), ret |-> r.ret]

\* BidirMap::insert: displace by first, else by second, then push
insert(c, kv1, kv2) ==
    LET r == IF contains_first_key(c, kv1)
             THEN remove_by_first(c, kv1)
             ELSE IF contains_second_key(c, kv2)
                  THEN remove_by_second(c, kv2)
                  ELSE [cont |-> c, ret |-> None]
    IN  [cont |-> Append(r.cont, <<kv1, kv2>>), ret |-> r.ret]

\* clear that truncates to one entry
clear_truncate(c) == IF c = <<>> THEN c ELSE <<c[1]>>

\* BidirMap::clear
clear(c) == <<>>

\* Option::expect(msg): the value, or a panic carrying msg
expect(o, msg) ==
    IF o = None
    THEN [ret |-> None, panic |-> msg]
    ELSE [ret |-> o[1], panic |-> ""]

\* Index<ByFirst<Q>>::index
index_ByFirst(c, key) == expect(get_by_first(c, key), MsgFirst)

\* Index<&ByFirst<Q>>::index
index_ref_ByFirst(c, key) == expect(get_by_first(c, key), MsgFirst)

\* Index<BySecond<Q>>::index
index_BySecond(c, key) == expect(get_by_second(c, key), MsgSecond)

\* the by-reference impl with the message of the by-first impls
index_ref_BySecond_first_msg(c, key) == expect(get_by_second(c, key), MsgFirst)

\* Index<&BySecond<Q>>::index
index_ref_BySecond(c, key) == expect(get_by_second(c, key), MsgSecond)

\* BidirMap::iter: a cursor over the slice, here the slice and the next index
iter(c) == [slice |-> c, pos |-> 1]

\* Iter::next: the pair (&kv1, &kv2) of the entry under the cursor, and the
\* cursor moved on; None at the end
Iter_next(it) ==
    IF it.pos > Len(it.slice)
    THEN [item |-> None, iter |-> it]
    ELSE [item |-> Some(<<it.slice[it.pos][1], it.slice[it.pos][2]>>),
          iter |-> [slice |-> it.slice, pos |-> it.pos + 1]]

\* Iterator::collect into a Vec: next() until None
RECURSIVE collect(_)
collect(it) ==
    LET n == Iter_next(it)
    IN  IF n.item = None THEN <<>> ELSE <<n.item[1]>> \o collect(n.iter)

\* Vec::extend(iter): push each item in order
RECURSIVE vec_extend(_, _)
vec_extend(v, items) ==
    IF items = <<>> THEN v ELSE vec_extend(Append(v, Head(items)), Tail(items))

\* bulk load through insert, item by item
RECURSIVE insert_each(_, _)
insert_each(c, items) ==
    IF items = <<>>
    THEN c
    ELSE insert_each(insert(c, Head(items)[1], Head(items)[2]).cont, Tail(items))

\* from_iter that inserts the items one by one
from_iter_by_insert(items) == insert_each(<<>>, items)

\* FromIterator::from_iter: cont is Vec::from_iter(iter)
from_iter(items) == vec_extend(<<>>, items)

\* extend that inserts the items one by one
extend_by_insert(c, items) == insert_each(c, items)

\* Extend::extend: self.cont.extend(iter)
extend(c, items) == vec_extend(c, items)

\* derived PartialEq: the two Vecs are equal, entry by entry
eq(a, b) == Len(a) = Len(b) /\ \A i \in 1..Len(a) : a[i] = b[i]

----------------------------------------------------------------------------
(* The calls.                                                              *)

Call(name, k1, k2) == [name |-> name, k1 |-> k1, k2 |-> k2]

Firsts(S) == {p[1] : p \in S}
Seconds(S) == {p[2] : p \in S}

\* BidirMap::new
Init ==
    /\ cont = <<>>
    /\ op = Call("new", 0, 0)
    /\ ret = None
    /\ panic = ""
    /\ pre = <<>>
    /\ fresh = TRUE
    /\ inserted = {}
    /\ counting = FALSE
    /\ inserts = 0
    /\ displaced = 0
    /\ removed = 0

\* A read-only call: the map, and the history of its mutations, stay
Query(name, k1, result, failure) ==
    /\ op' = Call(name, k1, 0)
    /\ ret' = result
    /\ panic' = failure
    /\ pre' = cont
    /\ UNCHANGED <<cont, fresh, inserted, counting, inserts, displaced, removed>>

Insert(kv1, kv2) ==
    LET r == insert(cont, kv1, kv2)
    IN  /\ counting => inserts < MaxInserts
        /\ cont' = r.cont
        /\ op' = Call("insert", kv1, kv2)
        /\ ret' = r.ret
        /\ panic' = ""
        /\ pre' = cont
        /\ fresh' = (fresh /\ kv1 \notin Firsts(inserted) /\ kv2 \notin Seconds(inserted))
        /\ inserted' = IF fresh' THEN inserted \cup {<<kv1, kv2>>} ELSE {}
        /\ inserts' = IF counting THEN inserts + 1 ELSE inserts
        /\ displaced' = IF counting /\ r.ret # None THEN displaced + 1 ELSE displaced
        /\ UNCHANGED <<counting, removed>>

Remove(name, key, r) ==
    /\ cont' = r.cont
    /\ op' = Call(name, key, 0)
    /\ ret' = r.ret
    /\ panic' = ""
    /\ pre' = cont
    /\ fresh' = FALSE
    /\ inserted' = {}
    /\ removed' = IF counting /\ r.ret # None THEN removed + 1 ELSE removed
    /\ UNCHANGED <<counting, inserts, displaced>>

RemoveByFirst(key) == Remove("remove_by_first", key, remove_by_first(cont, key))

RemoveBySecond(key) == Remove("remove_by_second", key, remove_by_second(cont, key))

Clear ==
    /\ cont' = clear(cont)
    /\ op' = Call("clear", 0, 0)
    /\ ret' = None
    /\ panic' = ""
    /\ pre' = cont
    /\ fresh' = FALSE
    /\ inserted' = {}
    /\ UNCHANGED <<counting, inserts, displaced, removed>>

GetByFirst(key) == Query("get_by_first", key, get_by_first(cont, key), "")

GetBySecond(key) == Query("get_by_second", key, get_by_second(cont, key), "")

ContainsFirstKey(key) == Query("contains_first_key", key, contains_first_key(cont, key), "")

ContainsSecondKey(key) == Query("contains_second_key", key, contains_second_key(cont, key), "")

GetMutByFirst(key) == Query("get_mut_by_first", key, get_mut_by_first(cont, key), "")

GetMutBySecond(key) == Query("get_mut_by_second", key, get_mut_by_second(cont, key), "")

IndexByFirst(key) ==
    LET r == index_ByFirst(cont, key) IN Query("index_ByFirst", key, r.ret, r.panic)

IndexRefByFirst(key) ==
    LET r == index_ref_ByFirst(cont, key) IN Query("index_ref_ByFirst", key, r.ret, r.panic)

IndexBySecond(key) ==
    LET r == index_BySecond(cont, key) IN Query("index_BySecond", key, r.ret, r.panic)

IndexRefBySecond(key) ==
    LET r == index_ref_BySecond(cont, key) IN Query("index_ref_BySecond", key, r.ret, r.panic)

\* The calls that change the map through insert, remove_by_* and clear
Mutate ==
    \/ \E kv1 \in Kv1, kv2 \in Kv2 : Insert(kv1, kv2)
    \/ \E key \in Kv1 : RemoveByFirst(key)
    \/ \E key \in Kv2 : RemoveBySecond(key)
    \/ Clear

\* The calls that look an entry up and leave absence to the caller
Lookup ==
    \/ \E key \in Kv1 : GetByFirst(key)
    \/ \E key \in Kv2 : GetBySecond(key)
    \/ \E key \in Kv1 : ContainsFirstKey(key)
    \/ \E key \in Kv2 : ContainsSecondKey(key)
    \/ \E key \in Kv1 : GetMutByFirst(key)
    \/ \E key \in Kv2 : GetMutBySecond(key)

\* map[ByFirst(k)], map[&ByFirst(k)], map[BySecond(k)], map[&BySecond(k)]
Indexed ==
    \/ \E key \in Kv1 : IndexByFirst(key)
    \/ \E key \in Kv1 : IndexRefByFirst(key)
    \/ \E key \in Kv2 : IndexBySecond(key)
    \/ \E key \in Kv2 : IndexRefBySecond(key)

\* insert and remove_by_* alone, for the runs that count their calls
Counted ==
    \/ \E kv1 \in Kv1, kv2 \in Kv2 : Insert(kv1, kv2)
    \/ \E key \in Kv1 : RemoveByFirst(key)
    \/ \E key \in Kv2 : RemoveBySecond(key)

Next == Mutate \/ Lookup

\* A client that inserts, removes, clears and looks entries up
Spec == Init /\ [][Next]_vars

NextIndex == Mutate \/ Indexed

\* A client that inserts, removes, clears and indexes the map
SpecIndex == Init /\ [][NextIndex]_vars

InitCount ==
    /\ cont = <<>>
    /\ op = Call("new", 0, 0)
    /\ ret = None
    /\ panic = ""
    /\ pre = <<>>
    /\ fresh = TRUE
    /\ inserted = {}
    /\ counting = TRUE
    /\ inserts = 0
    /\ displaced = 0
    /\ removed = 0

\* A client that starts from an empty map, only inserts and removes, and
\* counts its calls
SpecCount == InitCount /\ [][Counted]_vars

\* The sequences of n pairs, and the sequences a bulk call is given
PairSeqs(n) == [1..n -> Kv1 \X Kv2]
BulkInputs == UNION {PairSeqs(n) : n \in 0..MaxBulk}

BulkCall(name, items) == [name |-> name, k1 |-> 0, k2 |-> 0, pairs |-> items]

\* BidirMap::from_iter(items): a map built by bulk load
InitBulk ==
    /\ \E items \in BulkInputs :
           /\ cont = from_iter(items)
           /\ op = BulkCall("from_iter", items)
    /\ ret = None
    /\ panic = ""
    /\ pre = <<>>
    /\ fresh = FALSE
    /\ inserted = {}
    /\ counting = FALSE
    /\ inserts = 0
    /\ displaced = 0
    /\ removed = 0

\* map.extend(items)
Extend(items) ==
    /\ Len(cont) + Len(items) <= MaxLen
    /\ cont' = extend(cont, items)
    /\ op' = BulkCall("extend", items)
    /\ ret' = None
    /\ panic' = ""
    /\ pre' = cont
    /\ fresh' = FALSE
    /\ inserted' = {}
    /\ UNCHANGED <<counting, inserts, displaced, removed>>

\* map.iter().collect()
IterCollect == Query("iter", 0, collect(iter(cont)), "")

NextBulk ==
    \/ \E n \in 0..MaxBulk : Len(cont) + n <= MaxLen /\ \E items \in PairSeqs(n) : Extend(items)
    \/ IterCollect

\* A client that builds the map from pairs, extends it and iterates over it
SpecBulk == InitBulk /\ [][NextBulk]_vars

\* if let Some(x) = map.get_mut_by_*(&key) { *x = v; }
Set(name, key, v, r) ==
    /\ cont' = IF r = None THEN cont ELSE store(cont, r[1], v)
    /\ op' = Call(name, key, v)
    /\ ret' = r
    /\ panic' = ""
    /\ pre' = cont
    /\ fresh' = FALSE
    /\ inserted' = {}
    /\ UNCHANGED <<counting, inserts, displaced, removed>>

SetByFirst(key, v) == Set("set_by_first", key, v, get_mut_by_first(cont, key))

SetBySecond(key, v) == Set("set_by_second", key, v, get_mut_by_second(cont, key))

NextLoaded ==
    \/ Lookup
    \/ \E key \in Kv1 : RemoveByFirst(key)
    \/ \E key \in Kv2 : RemoveBySecond(key)
    \/ \E key \in Kv1, v \in Kv2 : SetByFirst(key, v)
    \/ \E key \in Kv2, v \in Kv1 : SetBySecond(key, v)

\* A client that builds the map from any pairs, then looks entries up,
\* removes them and writes through get_mut_by_*
SpecLoaded == InitBulk /\ [][NextLoaded]_vars

----------------------------------------------------------------------------
(* What the properties speak of.                                           *)

FirstsDistinct(c) == \A i, j \in 1..Len(c) : c[i][1] = c[j][1] => i = j

SecondsDistinct(c) == \A i, j \in 1..Len(c) : c[i][2] = c[j][2] => i = j

HasFirst(c, k) == \E i \in 1..Len(c) : c[i][1] = k

HasSecond(c, k) == \E i \in 1..Len(c) : c[i][2] = k

\* How many times the pair p is an entry of c
Count(c, p) == Cardinality({i \in 1..Len(c) : c[i] = p})

Pairs == Kv1 \X Kv2

\* c is b with one entry `gone` taken out and one entry `new` put in
OneOutOneIn(c, b, gone, new) ==
    \A p \in Pairs :
        Count(c, p) = Count(b, p) - (IF p = gone THEN 1 ELSE 0) + (IF p = new THEN 1 ELSE 0)

\* The last call was an insert(k1, k2) on a map holding an entry with first k1
\* and a different entry with second k2
DoubleCollision ==
    /\ op.name = "insert"
    /\ \E i, j \in 1..Len(pre) : i # j /\ pre[i][1] = op.k1 /\ pre[j][2] = op.k2

----------------------------------------------------------------------------
(* C1 *)

\* C1, as stated: in every state reached by insert, remove_by_first,
\* remove_by_second and clear, no two entries have equal first values and no
\* two entries have equal second values.
C1_Uniqueness == FirstsDistinct(cont) /\ SecondsDistinct(cont)

\* C1, amended: in every such state no two entries have equal first values,
\* and every call other than an insert that collides on both sides with two
\* different entries leaves the second values pairwise distinct when they
\* were so before it.
C1_UniquenessButDoubleCollision ==
    /\ FirstsDistinct(cont)
    /\ (SecondsDistinct(pre) /\ ~DoubleCollision) => SecondsDistinct(cont)

\* An insert that displaced an entry by its second value alone, in a map that
\* keeps other entries.
C1_Witness ==
    /\ op.name = "insert"
    /\ ret # None
    /\ ~HasFirst(pre, op.k1)
    /\ Len(cont) >= 2
    /\ SecondsDistinct(pre)
    /\ SecondsDistinct(cont)

----------------------------------------------------------------------------
(* C2 *)

\* C2, as stated: right after insert(k1, k2), get_by_first(k1) is Some(k2)
\* and get_by_second(k2) is Some(k1).
C2_InsertThenGet ==
    op.name = "insert" =>
        /\ get_by_first(cont, op.k1) = Some(op.k2)
        /\ get_by_second(cont, op.k2) = Some(op.k1)

\* C2, amended: right after insert(k1, k2), get_by_first(k1) is Some(k2);
\* get_by_second(k2) is Some(k1) when the second values were pairwise distinct
\* before the call and the call did not collide on both sides with two
\* different entries.
C2_InsertThenGetButDoubleCollision ==
    op.name = "insert" =>
        /\ get_by_first(cont, op.k1) = Some(op.k2)
        /\ (SecondsDistinct(pre) /\ ~DoubleCollision) =>
               get_by_second(cont, op.k2) = Some(op.k1)

\* An insert into a map of two entries, one of which it displaced.
C2_Witness ==
    /\ op.name = "insert"
    /\ Len(pre) = 2
    /\ ret # None
    /\ SecondsDistinct(pre)
    /\ ~DoubleCollision
    /\ get_by_second(cont, op.k2) = Some(op.k1)

----------------------------------------------------------------------------
(* C3 *)

\* C3: after nothing but inserts of pairs with pairwise distinct firsts and
\* pairwise distinct seconds, each inserted pair is found from either side,
\* and a value never inserted on a side is found by no lookup on that side.
C3_LookupOverDistinctPairs ==
    fresh =>
        /\ \A p \in inserted :
               /\ get_by_first(cont, p[1]) = Some(p[2])
               /\ get_by_second(cont, p[2]) = Some(p[1])
        /\ \A a \in Kv1 \ Firsts(inserted) : get_by_first(cont, a) = None
        /\ \A b \in Kv2 \ Seconds(inserted) : get_by_second(cont, b) = None

\* Two distinct pairs were inserted and a value of each side never was.
C3_Witness ==
    /\ fresh
    /\ Cardinality(inserted) >= 2
    /\ Kv1 \ Firsts(inserted) # {}
    /\ Kv2 \ Seconds(inserted) # {}
    /\ op.name = "insert"

----------------------------------------------------------------------------
(* C4 *)

\* The last call was insert(k1, k2) on a map where entry i has first k1 and
\* no entry has second k2
FirstSideCollision(i) ==
    /\ op.name = "insert"
    /\ i \in 1..Len(pre)
    /\ pre[i][1] = op.k1
    /\ ~HasSecond(pre, op.k2)

\* C4, as stated: such an insert removes exactly the entry (k1, old2) and
\* returns it, keeps every other entry, and afterwards get_by_second(k2) is
\* Some(k1) and get_by_second(old2) is None.
C4_FirstSideCollision ==
    \A i \in 1..Len(pre) :
        FirstSideCollision(i) =>
            /\ ret = Some(pre[i])
            /\ OneOutOneIn(cont, pre, pre[i], <<op.k1, op.k2>>)
            /\ get_by_second(cont, op.k2) = Some(op.k1)
            /\ get_by_second(cont, pre[i][2]) = None

\* C4, amended: the same, with get_by_second(old2) None provided no other
\* entry had second old2 before the call.
C4_FirstSideCollisionUniqueOld ==
    \A i \in 1..Len(pre) :
        FirstSideCollision(i) =>
            /\ ret = Some(pre[i])
            /\ OneOutOneIn(cont, pre, pre[i], <<op.k1, op.k2>>)
            /\ get_by_second(cont, op.k2) = Some(op.k1)
            /\ (\A j \in 1..Len(pre) : j # i => pre[j][2] # pre[i][2]) =>
                   get_by_second(cont, pre[i][2]) = None

\* A first-side collision in a map of two entries with distinct seconds,
\* the colliding entry not the last one.
C4_Witness ==
    /\ Len(pre) = 2
    /\ SecondsDistinct(pre)
    /\ FirstSideCollision(1)

----------------------------------------------------------------------------
(* C5 *)

\* The last call was insert(k1, k2) on a map where entry i has second k2 and
\* no entry has first k1
SecondSideCollision(i) ==
    /\ op.name = "insert"
    /\ i \in 1..Len(pre)
    /\ pre[i][2] = op.k2
    /\ ~HasFirst(pre, op.k1)

\* C5, as stated: such an insert removes exactly the entry (old1, k2) and
\* returns it, keeps every other entry, and afterwards get_by_first(k1) is
\* Some(k2) and get_by_first(old1) is None.
C5_SecondSideCollision ==
    \A i \in 1..Len(pre) :
        SecondSideCollision(i) =>
            /\ ret = Some(pre[i])
            /\ OneOutOneIn(cont, pre, pre[i], <<op.k1, op.k2>>)
            /\ get_by_first(cont, op.k1) = Some(op.k2)
            /\ get_by_first(cont, pre[i][1]) = None

\* C5, amended: the same of the entry (old1, k2) of lowest index among the
\* entries with second k2.
C5_SecondSideCollisionLowest ==
    \A i \in 1..Len(pre) :
        (SecondSideCollision(i) /\ \A j \in 1..(i - 1) : pre[j][2] # op.k2) =>
            /\ ret = Some(pre[i])
            /\ OneOutOneIn(cont, pre, pre[i], <<op.k1, op.k2>>)
            /\ get_by_first(cont, op.k1) = Some(op.k2)
            /\ get_by_first(cont, pre[i][1]) = None

\* A second-side collision in a map of two entries, the colliding entry the
\* first of them.
C5_Witness ==
    /\ Len(pre) = 2
    /\ SecondSideCollision(1)
    /\ pre[2][2] # op.k2

----------------------------------------------------------------------------
(* C6 *)

\* C6: insert(k1, k2) returns None exactly when no entry had first k1 and no
\* entry had second k2; what it returns otherwise was an entry of the map;
\* either way (k1, k2) is the last entry after the call.
C6_InsertResultAndAppend ==
    op.name = "insert" =>
        /\ (ret = None) <=> (~HasFirst(pre, op.k1) /\ ~HasSecond(pre, op.k2))
        /\ ret # None => \E i \in 1..Len(pre) : pre[i] = ret[1]
        /\ Len(cont) >= 1
        /\ cont[Len(cont)] = <<op.k1, op.k2>>

\* An insert that displaced an entry which was not the last one.
C6_Witness ==
    /\ op.name = "insert"
    /\ ret # None
    /\ Len(pre) >= 2
    /\ pre[Len(pre)] # ret[1]

----------------------------------------------------------------------------
(* C7 *)

\* C7: in a run of insert and remove_by_* calls from an empty map, len() is
\* the number of inserts, less the removes that returned Some, less the
\* inserts that returned Some; is_empty() is true exactly when that is 0.
C7_LengthAccounting ==
    counting =>
        /\ len(cont) = inserts - removed - displaced
        /\ is_empty(cont) <=> (inserts - removed - displaced = 0)

\* A counted run with a displacing insert and a successful remove behind it,
\* and entries left.
C7_Witness ==
    /\ counting
    /\ displaced >= 1
    /\ removed >= 1
    /\ len(cont) >= 1
    /\ inserts = MaxInserts

----------------------------------------------------------------------------
(* C8 *)

\* The last call was `name`(k), it returned Some, and the same call made now
\* would return r
RemovedThenAgain(name, r) ==
    (op.name = name /\ ret # None) => r = None

\* C8, as stated: when remove_by_first(k) (remove_by_second(k)) returned
\* Some, the same call made right after it returns None.
C8_RemovalIdempotent ==
    /\ RemovedThenAgain("remove_by_first", remove_by_first(cont, op.k1).ret)
    /\ RemovedThenAgain("remove_by_second", remove_by_second(cont, op.k1).ret)

\* C8, amended: so it is for remove_by_first; for remove_by_second it is so
\* when exactly one entry had second k before the first of the two calls.
C8_RemovalIdempotentSingleMatch ==
    /\ RemovedThenAgain("remove_by_first", remove_by_first(cont, op.k1).ret)
    /\ Cardinality({i \in 1..Len(pre) : pre[i][2] = op.k1}) = 1 =>
           RemovedThenAgain("remove_by_second", remove_by_second(cont, op.k1).ret)

\* A remove_by_second that took the only entry with that second out of a map
\* of three.
C8_Witness ==
    /\ op.name = "remove_by_second"
    /\ ret # None
    /\ Len(pre) = 3
    /\ Cardinality({i \in 1..Len(pre) : pre[i][2] = op.k1}) = 1

----------------------------------------------------------------------------
(* C9 *)

\* What indexing by `name` must give for a lookup result `found`: the value
\* found, or the panic with message `msg`; the map as it was
IndexedAs(found, msg) ==
    /\ cont = pre
    /\ IF found # None
       THEN panic = "" /\ ret = found[1]
       ELSE panic = msg /\ ret = None

\* C9: map[ByFirst(k)] and map[&ByFirst(k)] give what get_by_first(k) holds
\* when an entry has first k, and panic with 'no entry found for first
\* key/value' otherwise; BySecond likewise over get_by_second with 'no entry
\* found for second key/value'.  The map is unchanged.
C9_IndexedLookup ==
    /\ op.name \in {"index_ByFirst", "index_ref_ByFirst"} =>
           /\ IndexedAs(get_by_first(pre, op.k1), "no entry found for first key/value")
           /\ HasFirst(pre, op.k1) <=> panic = ""
    /\ op.name \in {"index_BySecond", "index_ref_BySecond"} =>
           /\ IndexedAs(get_by_second(pre, op.k1), "no entry found for second key/value")
           /\ HasSecond(pre, op.k1) <=> panic = ""

\* A by-reference index by second on a map of two entries that has no such
\* second: the panic.
C9_Witness ==
    /\ op.name = "index_ref_BySecond"
    /\ Len(pre) = 2
    /\ ~HasSecond(pre, op.k1)
    /\ panic = "no entry found for second key/value"

\* A by-value index by first that found its entry behind another one.
C9_WitnessFound ==
    /\ op.name = "index_ByFirst"
    /\ Len(pre) = 2
    /\ pre[2][1] = op.k1
    /\ ret = pre[2][2]

----------------------------------------------------------------------------
(* C10 *)

\* C10: for a key that matches no entry on the side asked, get_by_*,
\* get_mut_by_* and remove_by_* return None and contains_*_key returns false;
\* the call does not fail and the entries are as they were.
C10_AbsenceIsAValue ==
    /\ (/\ op.name \in {"get_by_first", "get_mut_by_first", "remove_by_first"}
        /\ ~HasFirst(pre, op.k1)) => (ret = None /\ panic = "" /\ cont = pre)
    /\ (/\ op.name \in {"get_by_second", "get_mut_by_second", "remove_by_second"}
        /\ ~HasSecond(pre, op.k1)) => (ret = None /\ panic = "" /\ cont = pre)
    /\ (op.name = "contains_first_key" /\ ~HasFirst(pre, op.k1)) =>
           (ret = FALSE /\ panic = "" /\ cont = pre)
    /\ (op.name = "contains_second_key" /\ ~HasSecond(pre, op.k1)) =>
           (ret = FALSE /\ panic = "" /\ cont = pre)

\* A remove_by_first of an absent key on a map of two entries.
C10_Witness ==
    /\ op.name = "remove_by_first"
    /\ Len(pre) = 2
    /\ ~HasFirst(pre, op.k1)
    /\ ret = None

----------------------------------------------------------------------------
(* C11 *)

\* C11: after clear(), is_empty() is true, len() is 0, every get_by_* returns
\* None and every contains_*_key returns false.
C11_Clear ==
    op.name = "clear" =>
        /\ is_empty(cont)
        /\ len(cont) = 0
        /\ \A k \in Kv1 : get_by_first(cont, k) = None /\ ~contains_first_key(cont, k)
        /\ \A k \in Kv2 : get_by_second(cont, k) = None /\ ~contains_second_key(cont, k)

\* A clear of a map of three entries, two of them with the same second.
C11_Witness ==
    /\ op.name = "clear"
    /\ Len(pre) = 3
    /\ ~SecondsDistinct(pre)

----------------------------------------------------------------------------
(* C12 *)

\* C12: in every map state, maps with equal seconds (or firsts) among them,
\* the pairs iter() produces, collected in order and given to from_iter, make
\* a map equal to the original: the same entries in the same order.
C12_IterRoundTrip ==
    op.name = "iter" =>
        /\ eq(from_iter(ret), pre)
        /\ Len(ret) = Len(pre)
        /\ \A i \in 1..Len(pre) : ret[i] = pre[i]
        /\ cont = pre

\* An iteration over three entries, the second value of the first two equal.
C12_Witness ==
    /\ op.name = "iter"
    /\ Len(pre) = 3
    /\ pre[1][2] = pre[2][2]
    /\ pre[1][1] # pre[2][1]

----------------------------------------------------------------------------
(* C13 *)

\* C13: from_iter(pairs) is exactly the sequence pairs; extend(pairs) is the
\* old sequence followed by pairs in order; nothing is displaced, whatever
\* collides, and len() grows by the number of pairs supplied.
C13_BulkLoadAppends ==
    /\ op.name = "from_iter" => (cont = op.pairs /\ len(cont) = Len(op.pairs))
    /\ op.name = "extend" =>
           /\ cont = pre \o op.pairs
           /\ len(cont) = len(pre) + Len(op.pairs)

\* An extend by two pairs that have the same first, one of them colliding
\* with an entry the map held.
C13_Witness ==
    /\ op.name = "extend"
    /\ Len(pre) = 1
    /\ Len(op.pairs) = 2
    /\ op.pairs[1][1] = op.pairs[2][1]
    /\ op.pairs[1][2] = pre[1][2]
    /\ op.pairs[1] # pre[1]

\* A from_iter of two pairs with the same second.
C13_WitnessFromIter ==
    /\ op.name = "from_iter"
    /\ Len(op.pairs) = 2
    /\ op.pairs[1][2] = op.pairs[2][2]
    /\ op.pairs[1][1] # op.pairs[2][1]

----------------------------------------------------------------------------
(* C14 *)

\* C14: when insert(k1, k2) is called on a map holding two different entries
\* (k1, x) and (y, k2), only (k1, x) is removed and returned, (y, k2) stays,
\* (k1, k2) is appended and len() is what it was.
C14_SingleDisplacement ==
    \A i, j \in 1..Len(pre) :
        (op.name = "insert" /\ i # j /\ pre[i][1] = op.k1 /\ pre[j][2] = op.k2) =>
            /\ ret = Some(pre[i])
            /\ OneOutOneIn(cont, pre, pre[i], <<op.k1, op.k2>>)
            /\ \E m \in 1..(Len(cont) - 1) : cont[m] = pre[j]
            /\ cont[Len(cont)] = <<op.k1, op.k2>>
            /\ len(cont) = len(pre)

\* A double collision in a map of three entries, the entry with first k1 at
\* the front.
C14_Witness ==
    /\ DoubleCollision
    /\ Len(pre) = 3
    /\ pre[1][1] = op.k1
    /\ pre[1][2] # op.k2

----------------------------------------------------------------------------
(* C15 *)

\* After the last call, removing one of the entries with second k2, by
\* remove_by_second(k2) or by remove_by_first of its first, leaves the seconds
\* pairwise distinct
RecoversByRemoval ==
    /\ SecondsDistinct(remove_by_second(cont, op.k2).cont)
    /\ \A i \in 1..Len(cont) :
           cont[i][2] = op.k2 => SecondsDistinct(remove_by_first(cont, cont[i][1]).cont)

\* C15, as stated: after an insert(k1, k2) that collided on both sides with
\* two different entries, exactly two entries have second k2, and removing
\* one of the two leaves no two entries with the same second.
C15_Recovery ==
    DoubleCollision =>
        /\ Cardinality({i \in 1..Len(cont) : cont[i][2] = op.k2}) = 2
        /\ RecoversByRemoval

\* C15, amended: so it is when the second values were pairwise distinct
\* before that insert.
C15_RecoveryFromDistinct ==
    (DoubleCollision /\ SecondsDistinct(pre)) =>
        /\ Cardinality({i \in 1..Len(cont) : cont[i][2] = op.k2}) = 2
        /\ RecoversByRemoval

\* A double collision in a map of three entries with distinct seconds, which
\* leaves two entries with second k2.
C15_Witness ==
    /\ DoubleCollision
    /\ SecondsDistinct(pre)
    /\ Len(pre) = 3
    /\ ~SecondsDistinct(cont)

----------------------------------------------------------------------------
(* C16 *)

\* c is b after a swap-remove at index i: one shorter, the former last entry
\* at i (when i was not the last index), every other entry where it was
SwapRemoved(c, b, i) ==
    /\ Len(c) = Len(b) - 1
    /\ i < Len(b) => c[i] = b[Len(b)]
    /\ \A m \in 1..(Len(b) - 1) : m # i => c[m] = b[m]

\* i is the lowest index of b whose `side` equals k
LowestMatch(b, side, k, i) ==
    /\ i \in 1..Len(b)
    /\ b[i][side] = k
    /\ \A m \in 1..(i - 1) : b[m][side] # k

\* C16: a remove_by_first(k) or remove_by_second(k) whose first match is at
\* index i leaves the sequence swap-removed at i; so does the removal inside
\* insert, before the new pair is pushed.
C16_SwapRemoveEffect ==
    \A i \in 1..Len(pre) :
        /\ (op.name = "remove_by_first" /\ LowestMatch(pre, 1, op.k1, i)) =>
               SwapRemoved(cont, pre, i)
        /\ (op.name = "remove_by_second" /\ LowestMatch(pre, 2, op.k1, i)) =>
               SwapRemoved(cont, pre, i)
        /\ (op.name = "insert" /\ LowestMatch(pre, 1, op.k1, i)) =>
               SwapRemoved(SubSeq(cont, 1, Len(cont) - 1), pre, i)
        /\ (op.name = "insert" /\ ~HasFirst(pre, op.k1) /\ LowestMatch(pre, 2, op.k2, i)) =>
               SwapRemoved(SubSeq(cont, 1, Len(cont) - 1), pre, i)

\* A remove_by_second that found its match at the front of three entries.
C16_Witness ==
    /\ op.name = "remove_by_second"
    /\ Len(pre) = 3
    /\ pre[1][2] = op.k1
    /\ cont = <<pre[3], pre[2]>>

----------------------------------------------------------------------------
(* C19 *)

\* C19: in every state reached by insert, remove_by_first, remove_by_second
\* and clear, double collisions included, no two entries have equal first
\* values, and right after insert(k1, k2) get_by_first(k1) is Some(k2).
C19_FirstSideUniqueness ==
    /\ FirstsDistinct(cont)
    /\ op.name = "insert" => get_by_first(cont, op.k1) = Some(op.k2)

\* A double collision that left two entries with the same second and the
\* new pair found by its first.
C19_Witness ==
    /\ DoubleCollision
    /\ Len(pre) = 2
    /\ ~SecondsDistinct(cont)
    /\ get_by_first(cont, op.k1) = Some(op.k2)

----------------------------------------------------------------------------
(* C17 *)

\* C17: in every map state, with several entries matching the key or not,
\* get_by_first, get_by_second, remove_by_first and remove_by_second act on
\* the entry of lowest index whose side asked equals the key, and
\* contains_*_key is true exactly when there is such an entry.
C17_FirstMatch ==
    /\ \A i \in 1..Len(pre) :
           /\ (op.name = "get_by_first" /\ LowestMatch(pre, 1, op.k1, i)) =>
                  ret = Some(pre[i][2])
           /\ (op.name = "get_by_second" /\ LowestMatch(pre, 2, op.k1, i)) =>
                  ret = Some(pre[i][1])
           /\ (op.name = "remove_by_first" /\ LowestMatch(pre, 1, op.k1, i)) =>
                  (ret = Some(pre[i]) /\ SwapRemoved(cont, pre, i))
           /\ (op.name = "remove_by_second" /\ LowestMatch(pre, 2, op.k1, i)) =>
                  (ret = Some(pre[i]) /\ SwapRemoved(cont, pre, i))
    /\ op.name = "contains_first_key" => (ret <=> HasFirst(pre, op.k1))
    /\ op.name = "contains_second_key" => (ret <=> HasSecond(pre, op.k1))

\* A get_by_first on two entries that both have the key as first, and
\* different seconds.
C17_Witness ==
    /\ op.name = "get_by_first"
    /\ Len(pre) = 2
    /\ pre[1][1] = op.k1
    /\ pre[2][1] = op.k1
    /\ pre[1][2] # pre[2][2]
    /\ ret = Some(pre[1][2])

----------------------------------------------------------------------------
(* C18 *)

\* The last call wrote v through get_mut_by_first(k) (side 1) or
\* get_mut_by_second(k) (side 2), found entry i, in a map with pairwise
\* distinct firsts and pairwise distinct seconds
WroteThrough(side, i) ==
    /\ op.name = (IF side = 1 THEN "set_by_first" ELSE "set_by_second")
    /\ LowestMatch(pre, side, op.k1, i)
    /\ FirstsDistinct(pre)
    /\ SecondsDistinct(pre)

\* c is b with v on the side opposite to `side` of entry i, and nothing else
\* changed
OnlyOppositeSide(c, b, side, i, v) ==
    /\ Len(c) = Len(b)
    /\ \A m \in 1..Len(b) : m # i => c[m] = b[m]
    /\ c[i][side] = b[i][side]
    /\ c[i][3 - side] = v

\* C18, as stated: such a write changes only the opposite side of the
\* matched entry and leaves the firsts pairwise distinct and the seconds
\* pairwise distinct.
C18_MutAccessKeepsUniqueness ==
    \A side \in {1, 2} : \A i \in 1..Len(pre) :
        WroteThrough(side, i) =>
            /\ OnlyOppositeSide(cont, pre, side, i, op.k2)
            /\ FirstsDistinct(cont)
            /\ SecondsDistinct(cont)

\* C18, amended: such a write changes only the opposite side of the matched
\* entry and leaves the matched side pairwise distinct; the opposite side
\* stays pairwise distinct provided the value written equals no other
\* entry's value on that side.
C18_MutAccessKeepsMatchedSide ==
    \A side \in {1, 2} : \A i \in 1..Len(pre) :
        WroteThrough(side, i) =>
            /\ OnlyOppositeSide(cont, pre, side, i, op.k2)
            /\ IF side = 1 THEN FirstsDistinct(cont) ELSE SecondsDistinct(cont)
            /\ (\A m \in 1..Len(pre) : m # i => pre[m][3 - side] # op.k2) =>
                   (FirstsDistinct(cont) /\ SecondsDistinct(cont))

\* A write through get_mut_by_first that changed the second of the second of
\* two entries to a value no entry had.
C18_Witness ==
    /\ WroteThrough(1, 2)
    /\ Len(pre) = 2
    /\ ~HasSecond(pre, op.k2)
    /\ cont[2] = <<op.k1, op.k2>>

====
